---- MODULE Spec2Model ----
(***************************************************************************)
(* The update cycle of SsdImsDataCoordinator (coordinator.py): registry   *)
(* discovery, first-run history import, the fetch of yesterday's readings, *)
(* the hourly aggregation, the cumulative series build and the submission  *)
(* to the recorder's statistics.                                           *)
(*                                                                         *)
(* Time.  An instant is a number of quarter hours (UTC); an hour is a      *)
(* number of hours (UTC); a day is a number of local calendar days.  Local *)
(* midnight of day d is the UTC hour d * HoursPerDay - TzOffset.           *)
(* Energy.  Amounts are kept in hundredths of the unit of the readings, so *)
(* that `value * 0.25` of a reading of v units is the amount 25 * v.       *)
(***************************************************************************)
EXTENDS Integers, Sequences, FiniteSets, TLC

VARIABLES
    pods,            \* self.pods: the registry, a set of stable pod ids
    historyDone,     \* self._history_import_done (and the entry's flag)
    lastDataDate,    \* self._last_data_date
    data,            \* self.data: the snapshot of the last completed cycle
    store,           \* the recorder's statistics: series -> sequence of points
    queue,           \* the recorder's task queue of statistics to import
    today,           \* the local calendar day of dt_util.now()
    pc,              \* the position of the update cycle
    outcome,         \* how the last cycle ended
    podIds,          \* pod_ids of the running cycle
    idx,             \* index into podIds of the running loop
    dayOffset,       \* day_offset of the history import
    statistics,      \* statistics of the history import: kind -> hourly values
    kindIdx,         \* index of the sensor type whose anchor is read next
    toImport,        \* statistics_to_import: kind -> cumulative points
    allPodData,      \* all_pod_data of the running cycle
    requests,        \* the get_chart_data calls of the running cycle
    submitted,       \* the async_add_external_statistics calls of the cycle
    delayed,         \* a delay was slept since the last upstream call
    events,          \* environment events so far: raised calls, cancellations, midnights
    cycles,          \* cycles started
    config,          \* self.config
    atStart          \* what held when the running cycle started, and what
                     \* discovery and the reads of the statistics did in it

vars == <<pods, historyDone, lastDataDate, data, store, queue, today, pc,
          outcome, podIds, idx, dayOffset, statistics, kindIdx, toImport,
          allPodData, requests, submitted, delayed, events, cycles,
          config, atStart>>

(***************************************************************************)
(* Bounds of the model.                                                    *)
(***************************************************************************)
HoursPerDay == 2
MaxHistoryDays == 2
MaxCycles == 2
MaxEvents == 2
MaxHour == 2
MaxValue == 2
MaxReadings == 2
MaxQuarter == 5
MaxNameLen == 2
MaxNow == 5

TzOffset == 1

(* A reading without a value (None in the API's arrays). *)
None == 0 - 1

AllPods == {"A", "B"}

SENSOR_TYPE_ACTUAL_CONSUMPTION == "actual_consumption"
SENSOR_TYPE_ACTUAL_SUPPLY == "actual_supply"
SensorTypes == {SENSOR_TYPE_ACTUAL_CONSUMPTION, SENSOR_TYPE_ACTUAL_SUPPLY}

(* enabled_sensor_types: consumption always, supply when enabled. *)
EnabledSensorTypes(cfg) ==
    IF cfg.enable_supply_sensors
    THEN <<SENSOR_TYPE_ACTUAL_CONSUMPTION, SENSOR_TYPE_ACTUAL_SUPPLY>>
    ELSE <<SENSOR_TYPE_ACTUAL_CONSUMPTION>>

(***************************************************************************)
(* Time.                                                                   *)
(***************************************************************************)
QuartersPerDay == 4 * HoursPerDay

(* Local midnight of day d, as a UTC hour. *)
LocalMidnight(d) == d * HoursPerDay - TzOffset

(* The local day an hour (UTC) lies on. *)
DayOfHour(h) == (h + TzOffset) \div HoursPerDay

(* The hour the END of the interval lies in. *)
HourOfEnd(q) == q \div 4

(* timestamp_end_utc - 15 minutes, rounded down to the top of the hour. *)
HourOf(q) == (q - 1) \div 4

(* _calculate_yesterday_range(now): yesterday's local midnight to today's. *)
YesterdayRange(now) == <<LocalMidnight(now - 1), LocalMidnight(now)>>

(***************************************************************************)
(* The upstream meter: the readings the API holds.                         *)
(***************************************************************************)
ConsumptionAt(p, q) ==
    IF p = "A"
    THEN (IF HourOf(q) % 3 = 0 THEN 0 ELSE q % 3)
    ELSE (IF q % 4 = 2 THEN None ELSE 1)

SupplyAt(p, q) ==
    IF p = "B" /\ HourOf(q) % 2 = 1 THEN None ELSE 1

ValueAt(p, kind, q) ==
    IF kind = SENSOR_TYPE_ACTUAL_CONSUMPTION
    THEN ConsumptionAt(p, q) ELSE SupplyAt(p, q)

(* ChartData of get_chart_data(pod, from, to): one reading per quarter   *)
(* hour of the window, stamped with the END of its interval.             *)
ChartData(p, fromHour, toHour) ==
    [i \in 1..(4 * (toHour - fromHour)) |->
        [ts |-> 4 * fromHour + i,
         actual_consumption |-> ConsumptionAt(p, 4 * fromHour + i),
         actual_supply |-> SupplyAt(p, 4 * fromHour + i)]]

(* The chart of one local day. *)
DayChart(p, d) == ChartData(p, LocalMidnight(d), LocalMidnight(d + 1))

(***************************************************************************)
(* Hourly aggregation (the loop over chart_data.metering_datetime).        *)
(***************************************************************************)
(* A reading whose consumption is absent counted with its supply. *)
ValueOfEither(reading, kind) ==
    IF kind = SENSOR_TYPE_ACTUAL_SUPPLY \/ reading.actual_consumption = None
    THEN reading.actual_supply ELSE reading.actual_consumption

ValueOf(reading, kind) ==
    IF kind = SENSOR_TYPE_ACTUAL_CONSUMPTION
    THEN reading.actual_consumption ELSE reading.actual_supply

(* value * 0.25: the energy of a quarter hour at the reported value, in    *)
(* hundredths of the unit of the value.                                    *)
EnergyOf(value) == 25 * value

(* An aggregation that counts an absent value as 0.0 and keeps the last    *)
(* value of a timestamp that occurs again.                                 *)
RECURSIVE HourlyDataLastWins(_, _, _)
HourlyDataLastWins(chart, kind, n) ==
    IF n = 0 THEN << >>
    ELSE LET prev == HourlyDataLastWins(chart, kind, n - 1)
             value == IF ValueOf(chart[n], kind) = None THEN 0
                      ELSE ValueOf(chart[n], kind)
             hour_timestamp == HourOf(chart[n].ts)
             again == \E i \in 1..(n - 1) :
                          chart[i].ts = chart[n].ts /\ ValueOf(chart[i], kind) # None
         IN  IF again THEN prev
             ELSE IF hour_timestamp \in DOMAIN prev
                  THEN [prev EXCEPT ![hour_timestamp] = @ + EnergyOf(value)]
                  ELSE prev @@ (hour_timestamp :> 0 + EnergyOf(value))

(* hourly_data[kind] after the first n readings: hour -> sum of value*0.25 *)
(* over the readings of that hour that have a value.                       *)
RECURSIVE HourlyData(_, _, _)
HourlyData(chart, kind, n) ==
    IF n = 0 THEN << >>
    ELSE LET prev == HourlyData(chart, kind, n - 1)
             value == ValueOf(chart[n], kind)
             hour_timestamp == HourOf(chart[n].ts)
         IN  IF value = None THEN prev
             ELSE IF hour_timestamp \in DOMAIN prev
                  THEN [prev EXCEPT ![hour_timestamp] = @ + EnergyOf(value)]
                  ELSE prev @@ (hour_timestamp :> 0 + EnergyOf(value))

(* sorted(hours.items()): the (hour, value) pairs in ascending hour order. *)
RECURSIVE SortedItems(_)
SortedItems(hours) ==
    IF DOMAIN hours = {} THEN << >>
    ELSE LET top == CHOOSE h \in DOMAIN hours : \A g \in DOMAIN hours : g <= h
             rest == [g \in DOMAIN hours \ {top} |-> hours[g]]
         IN  Append(SortedItems(rest), [start |-> top, hourly_value |-> hours[top]])

(* The hourly values one chart adds for one sensor type. *)
HourlyStats(chart, kind) == SortedItems(HourlyData(chart, kind, Len(chart)))

(* sorted(statistics[sensor_type], key=start): a stable insertion sort. *)
RECURSIVE SortByStart(_)
SortByStart(stats) ==
    IF stats = << >> THEN << >>
    ELSE LET n == Len(stats)
             init == SortByStart(SubSeq(stats, 1, n - 1))
             x == stats[n]
             k == Cardinality({i \in 1..Len(init) : init[i].start <= x.start})
         IN  SubSeq(init, 1, k) \o <<x>> \o SubSeq(init, k + 1, Len(init))

(***************************************************************************)
(* The cumulative series build.                                            *)
(***************************************************************************)
(* A build whose running sum starts at 0.0 whatever the anchor holds. *)
RECURSIVE CumulativeFromZero(_, _, _)
CumulativeFromZero(items, last_stats, n) ==
    IF n = 0 THEN [sum |-> 0, out |-> << >>]
    ELSE LET prev == CumulativeFromZero(items, last_stats, n - 1)
             item == items[n]
         IN  IF last_stats # << >> /\ item.start <= last_stats[1].start
             THEN prev
             ELSE [sum |-> prev.sum + item.hourly_value,
                   out |-> Append(prev.out, [start |-> item.start,
                                             sum |-> prev.sum + item.hourly_value])]

(* The loop of _import_current_statistics over sorted(hours.items()):      *)
(* last_stats is the result of get_last_statistics (empty, or one point).  *)
RECURSIVE CumulativeFrom(_, _, _)
CumulativeFrom(items, last_stats, n) ==
    IF n = 0 THEN [sum |-> IF last_stats = << >> THEN 0 ELSE last_stats[1].sum,
                   out |-> << >>]
    ELSE LET prev == CumulativeFrom(items, last_stats, n - 1)
             item == items[n]
         IN  IF last_stats # << >> /\ item.start <= last_stats[1].start
             THEN prev
             ELSE [sum |-> prev.sum + item.hourly_value,
                   out |-> Append(prev.out, [start |-> item.start,
                                             sum |-> prev.sum + item.hourly_value])]

(* A build that skips only the hours before the last recorded one. *)
RECURSIVE CumulativeFromStrict(_, _, _)
CumulativeFromStrict(items, last_stats, n) ==
    IF n = 0 THEN [sum |-> IF last_stats = << >> THEN 0 ELSE last_stats[1].sum,
                   out |-> << >>]
    ELSE LET prev == CumulativeFromStrict(items, last_stats, n - 1)
             item == items[n]
         IN  IF last_stats # << >> /\ item.start < last_stats[1].start
             THEN prev
             ELSE [sum |-> prev.sum + item.hourly_value,
                   out |-> Append(prev.out, [start |-> item.start,
                                             sum |-> prev.sum + item.hourly_value])]

BuildCurrentStrict(items, last_stats) ==
    CumulativeFromStrict(items, last_stats, Len(items)).out

BuildCurrent(items, last_stats) ==
    CumulativeFrom(items, last_stats, Len(items)).out

(* The conversion of _import_history_statistics: the running sum starts at *)
(* 0.0 and no hour is skipped.                                             *)
RECURSIVE HistoryCumulative(_, _)
HistoryCumulative(sorted, n) ==
    IF n = 0 THEN [sum |-> 0, out |-> << >>]
    ELSE LET prev == HistoryCumulative(sorted, n - 1)
         IN  [sum |-> prev.sum + sorted[n].hourly_value,
              out |-> Append(prev.out, [start |-> sorted[n].start,
                                        sum |-> prev.sum + sorted[n].hourly_value])]

BuildHistory(stats) ==
    HistoryCumulative(SortByStart(stats), Len(stats)).out

(***************************************************************************)
(* The statistics store.                                                   *)
(***************************************************************************)
Series == AllPods \X SensorTypes

(* statistic_id of a pod's sensor type: the pod's name and the type. *)
StatisticId(pod_name, sensor_type) == <<pod_name, sensor_type>>

(* get_last_statistics(hass, 1, statistic_id, ...): the point with the     *)
(* latest start, as a sequence of at most one element.                     *)
LastStatistics(points) ==
    IF points = << >> THEN << >>
    ELSE LET top == CHOOSE i \in 1..Len(points) :
                        \A j \in 1..Len(points) :
                            \/ points[j].start < points[i].start
                            \/ points[j].start = points[i].start /\ j <= i
         IN  <<points[top]>>

(* The points a series holds or is about to hold: those imported and those *)
(* of the queued imports, in order.                                        *)
RECURSIVE QueuedFor(_, _)
QueuedFor(q, id) ==
    IF q = << >> THEN << >>
    ELSE (IF Head(q).id = id THEN Head(q).stats ELSE << >>) \o QueuedFor(Tail(q), id)

Held(id) == store[id] \o QueuedFor(queue, id)

(***************************************************************************)
(* Configuration and the upstream account.                                 *)
(***************************************************************************)
(* The configurations: no pod configured (discover all) or both, without   *)
(* supply sensors; one pod configured, with supply sensors.                *)
Configs ==
    [point_of_delivery : {<< >>, <<"A", "B">>},
     history_days : 0..MaxHistoryDays,
     enable_supply_sensors : {FALSE}]
    \cup
    [point_of_delivery : {<<"B">>},
     history_days : 0..MaxHistoryDays,
     enable_supply_sensors : {TRUE}]

(* The display labels (pod.text) of the account, as sequences of           *)
(* characters: a stable id followed by a description, or a description     *)
(* alone.                                                                  *)
LabelA == <<"A", " ", "(", "R", "d", ")">>
LabelB == <<"B">>
LabelNoId == <<"(", "n", "o", ")">>

(* The characters a stable id is made of. *)
UpperAlnum == {"A", "B", "R", "9"}

(* The leading contiguous run of uppercase-alphanumeric characters. *)
RECURSIVE LeadingRun(_)
LeadingRun(text) ==
    IF text = << >> \/ Head(text) \notin UpperAlnum THEN ""
    ELSE Head(text) \o LeadingRun(Tail(text))

(* pod.id: the stable id of a label, as a sequence of at most one element: *)
(* a label without a leading run has none (ValueError).                    *)
PodId(text) == IF LeadingRun(text) = "" THEN << >> ELSE <<LeadingRun(text)>>

(* What get_points_of_delivery can return when it succeeds: the labels of  *)
(* the points, possibly none.                                              *)
DiscoverResults ==
    {<<LabelA, LabelB>>, <<LabelB, LabelNoId>>, <<LabelNoId>>, << >>}

(* A discovery that accepts an empty list of points. *)
NoPodsFoundNever(labels) == FALSE

(* `if not pods: raise Exception("No points of delivery found")` *)
NoPodsFound(labels) == labels = << >>

(* A discovery in which one invalid label loses the whole registry. *)
RegistryOfAllOrNothing(labels) ==
    IF \E i \in 1..Len(labels) : PodId(labels[i]) = << >> THEN {}
    ELSE {PodId(labels[i])[1] : i \in 1..Len(labels)}

(* self.pods after the loop over the points: a point is stored under its  *)
(* stable id, a point whose id raises ValueError is skipped.               *)
RegistryOf(labels) ==
    {PodId(labels[i])[1] : i \in {j \in 1..Len(labels) : PodId(labels[j]) # << >>}}

(* list(self.pods.keys()) *)
RECURSIVE KeysOf(_)
KeysOf(S) ==
    IF S = {} THEN << >>
    ELSE LET low == CHOOSE x \in S : \A y \in S : x = y \/ x = "A"
         IN  <<low>> \o KeysOf(S \ {low})

(* pod_name_mapping.get(pod_id, pod_id) *)
PodName(pod_id) == pod_id

NoStats == [k \in SensorTypes |-> << >>]

Init ==
    /\ pods = {}
    /\ historyDone = FALSE
    /\ lastDataDate = << >>
    /\ data = << >>
    /\ store = [id \in Series |-> << >>]
    /\ queue = << >>
    /\ today = 0
    /\ pc = "idle"
    /\ outcome = "none"
    /\ podIds = << >>
    /\ idx = 0
    /\ dayOffset = 0
    /\ statistics = NoStats
    /\ kindIdx = 0
    /\ toImport = << >>
    /\ allPodData = << >>
    /\ requests = << >>
    /\ submitted = << >>
    /\ delayed = FALSE
    /\ events = 0
    /\ cycles = 0
    /\ config \in Configs
    /\ atStart = [historyDone |-> FALSE, discovery |-> "none", now |-> 0,
                  anchorDay |-> [p \in AllPods |-> << >>],
                  registry |-> {}, labels |-> << >>, data |-> << >>,
                  store |-> store, previous |-> "none", failed |-> {}]

(***************************************************************************)
(* The update cycle, _async_update_data, one action per await.             *)
(***************************************************************************)
Results == {"ok", "error", "auth"}

(* How a read of the recorder's statistics can end. *)
ReadResults == {"ok", "error"}

(* The local day of the last consumption point of a pod, if any. *)
AnchorDay(p) ==
    LET last == LastStatistics(Held(StatisticId(PodName(p), SENSOR_TYPE_ACTUAL_CONSUMPTION)))
    IN  IF last = << >> THEN << >> ELSE <<DayOfHour(last[1].start)>>

(* pod_ids = [pod for pod in pod_ids if pod in self.pods] *)
RECURSIVE AvailablePods(_, _)
AvailablePods(ids, registry) ==
    IF ids = << >> THEN << >>
    ELSE (IF Head(ids) \in registry THEN <<Head(ids)>> ELSE << >>)
         \o AvailablePods(Tail(ids), registry)

(* `if not pod_ids` and, with configured pods, `if not self.pods`: the     *)
(* cycle awaits _discover_pods.                                            *)
NeedsDiscovery(pod_ids, registry) == pod_ids = << >> \/ registry = {}

(* The platform starts a cycle: the registry is resolved from memory, or   *)
(* discovery is awaited.  Cycles are scheduled minutes apart at least, so  *)
(* the recorder has run the imports queued by the cycle before.            *)
StartCycle ==
    /\ pc = "idle"
    /\ queue = << >>
    /\ cycles < MaxCycles
    /\ cycles' = cycles + 1
    /\ requests' = << >>
    /\ submitted' = << >>
    /\ delayed' = FALSE
    /\ allPodData' = << >>
    /\ outcome' = "running"
    /\ atStart' = [historyDone |-> historyDone,
                   discovery |-> IF NeedsDiscovery(config.point_of_delivery, pods)
                                 THEN "called" ELSE "none",
                   now |-> today,
                   anchorDay |-> [p \in AllPods |-> AnchorDay(p)],
                   registry |-> pods, labels |-> << >>, data |-> data,
                   store |-> store, previous |-> outcome, failed |-> {}]
    /\ IF NeedsDiscovery(config.point_of_delivery, pods)
       THEN /\ pc' = "discover"
            /\ podIds' = config.point_of_delivery
       ELSE /\ pc' = "first_run"
            /\ podIds' = AvailablePods(config.point_of_delivery, pods)
    /\ UNCHANGED <<pods, historyDone, lastDataDate, data, store, queue, today,
                   idx, dayOffset, statistics, kindIdx, toImport, events,
                   config>>

(* Every failed discovery reported as a generic failure. *)
DiscoverOutcomeGeneric(result) == "update_failed"

(* The exception a failed discovery ends the cycle with: an authentication *)
(* message becomes ConfigEntryAuthFailed, anything else UpdateFailed.      *)
DiscoverOutcome(result) ==
    IF result = "auth" THEN "auth_failed" ELSE "update_failed"

(* The locals of a cycle that has ended. *)
CycleEnds ==
    /\ idx' = 0
    /\ dayOffset' = 0
    /\ statistics' = NoStats
    /\ kindIdx' = 0
    /\ toImport' = << >>
    /\ allPodData' = << >>

(* How get_points_of_delivery and the check of its result end: "ok", or   *)
(* what was raised.                                                        *)
DiscoveryResult(result, labels) ==
    IF result = "ok" /\ NoPodsFound(labels) THEN "empty" ELSE result

(* A discovery that adds the points it found to those it knew. *)
NewRegistryMerged(registry, found) == registry \cup found

(* `self.pods = {}` before the loop over the points: the registry is       *)
(* rebuilt from the points of this call alone.                             *)
NewRegistry(registry, found) == found

(* A discovery that empties the registry before it makes the call. *)
RegistryAfterFailureCleared(registry) == {}

(* The registry when _discover_pods raises: get_points_of_delivery and the *)
(* check `if not pods` come before `self.pods = {}`, so nothing was        *)
(* assigned.                                                               *)
RegistryAfterFailure(registry) == registry

(* await self._discover_pods() *)
Discover(result, labels) ==
    /\ pc = "discover"
    /\ (result # "ok" \/ labels = << >>) => events < MaxEvents
    /\ events' = IF result # "ok" \/ labels = << >> THEN events + 1 ELSE events
    /\ atStart' = [atStart EXCEPT
                      !.discovery = IF result = "ok" /\ labels = << >>
                                    THEN "empty" ELSE result,
                      !.labels = IF result = "ok" THEN labels ELSE << >>]
    /\ IF DiscoveryResult(result, labels) = "ok"
       THEN /\ pods' = NewRegistry(pods, RegistryOf(labels))
            /\ podIds' = IF podIds = << >>
                         THEN KeysOf(NewRegistry(pods, RegistryOf(labels)))
                         ELSE AvailablePods(podIds, NewRegistry(pods, RegistryOf(labels)))
            /\ pc' = "first_run"
            /\ UNCHANGED <<outcome, idx, dayOffset, statistics, kindIdx,
                           toImport, allPodData>>
       ELSE /\ pc' = "idle"
            /\ outcome' = DiscoverOutcome(DiscoveryResult(result, labels))
            /\ CycleEnds
            /\ pods' = RegistryAfterFailure(pods)
            /\ UNCHANGED podIds
    /\ UNCHANGED <<historyDone, lastDataDate, data, store, queue, today,
                   requests, submitted, delayed, cycles, config>>

(* if not self._history_import_done: ... *)
FirstRunCheck ==
    /\ pc = "first_run"
    /\ IF ~historyDone /\ config.history_days > 0 /\ podIds # << >>
       THEN /\ pc' = "hist_fetch"
            /\ idx' = 1
            /\ dayOffset' = config.history_days
            /\ statistics' = NoStats
            /\ UNCHANGED historyDone
       ELSE /\ pc' = "poll"
            /\ historyDone' = TRUE
            /\ UNCHANGED <<idx, dayOffset, statistics>>
    /\ UNCHANGED <<pods, lastDataDate, data, store, queue, today, outcome,
                   podIds, kindIdx, toImport, allPodData, requests, submitted,
                   delayed, events, cycles, config, atStart>>

(***************************************************************************)
(* The first-run history import, _import_history_statistics.               *)
(***************************************************************************)
(* A window that starts at day_end_local instead of one day before it. *)
HistoryDayFromEnd(now, day_offset) == now - (day_offset - 1)

(* The local day of day_start for a day_offset: end_date is today's local  *)
(* midnight, day_end_local = end_date - (day_offset - 1) days and          *)
(* day_start is one day before it.                                         *)
HistoryDay(now, day_offset) == now - (day_offset - 1) - 1

(* A raised request that ends the loop over the days. *)
NextDayOffsetAbort(result, day_offset) ==
    IF result = "ok" THEN day_offset - 1 ELSE 0

(* A day whose request raised is requested again. *)
NextDayOffsetRetry(result, day_offset) ==
    IF result = "ok" THEN day_offset - 1 ELSE day_offset

(* The next day_offset of range(history_days, 0, -1): a day whose request  *)
(* raised is skipped with `continue`, like a day that was imported.        *)
NextDayOffset(result, day_offset) == day_offset - 1

(* statistics after one day: the hourly values of the day's chart are      *)
(* appended for each enabled sensor type; a raised request adds nothing.   *)
AddDay(stats, result, chart, kinds) ==
    IF result # "ok" THEN stats
    ELSE [k \in SensorTypes |->
            IF \E i \in 1..Len(kinds) : kinds[i] = k
            THEN stats[k] \o HourlyStats(chart, k)
            ELSE stats[k]]

(* The async_add_external_statistics calls that end the import of one pod: *)
(* one per enabled sensor type that has points.                            *)
RECURSIVE HistorySubmissions(_, _, _)
HistorySubmissions(pod_name, stats, kinds) ==
    IF kinds = << >> THEN << >>
    ELSE LET k == Head(kinds)
             id == StatisticId(pod_name, k)
             built == BuildHistory(stats[k])
         IN  (IF built = << >> THEN << >>
              ELSE <<[id |-> id, stats |-> built, path |-> "history",
                      base |-> 0,
                      read |-> << >>,
                      persisted |-> LastStatistics(store[id]),
                      held |-> LastStatistics(Held(id))]>>)
             \o HistorySubmissions(pod_name, stats, Tail(kinds))

OnlyStats(batches) == [i \in 1..Len(batches) |->
                          [id |-> batches[i].id, stats |-> batches[i].stats]]

(* await self.api_client.get_chart_data(pod_id, day_start, day_end) in the *)
(* history import, with the sleep before it, up to the next await.         *)
HistFetch(result) ==
    /\ pc = "hist_fetch"
    /\ result # "ok" => events < MaxEvents
    /\ events' = IF result = "ok" THEN events ELSE events + 1
    /\ LET pod_id == podIds[idx]
           day == HistoryDay(today, dayOffset)
           slept == dayOffset < config.history_days
           kinds == EnabledSensorTypes(config)
           stats == AddDay(statistics, result, DayChart(pod_id, day), kinds)
           next == NextDayOffset(result, dayOffset)
           batches == HistorySubmissions(PodName(pod_id), stats, kinds)
       IN  /\ requests' = Append(requests,
                  [pod |-> pod_id, day |-> day, phase |-> "history",
                   result |-> result, delayed |-> (slept \/ delayed)])
           /\ delayed' = FALSE
           /\ IF next > 0
              THEN /\ dayOffset' = next
                   /\ statistics' = stats
                   /\ UNCHANGED <<pc, idx, historyDone, queue, submitted>>
              ELSE /\ queue' = queue \o OnlyStats(batches)
                   /\ submitted' = submitted \o batches
                   /\ statistics' = NoStats
                   /\ IF idx < Len(podIds)
                      THEN /\ idx' = idx + 1
                           /\ dayOffset' = config.history_days
                           /\ UNCHANGED <<pc, historyDone>>
                      ELSE /\ idx' = 0
                           /\ dayOffset' = 0
                           /\ historyDone' = TRUE
                           /\ pc' = "poll"
    /\ UNCHANGED <<pods, lastDataDate, data, store, today, outcome, podIds,
                   kindIdx, toImport, allPodData, cycles, config,
                   atStart>>

(***************************************************************************)
(* The fetch of yesterday's readings for each pod.                         *)
(***************************************************************************)
(* A check that looks at the snapshot only, not at the date. *)
UpToDateAnyDay == data # << >>

(* Smart polling: yesterday's data is already held. *)
UpToDate == lastDataDate = <<today - 1>> /\ data # << >>

SmartPolling ==
    /\ pc = "poll"
    /\ IF UpToDate
       THEN /\ pc' = "idle"
            /\ outcome' = "up_to_date"
            /\ CycleEnds
       ELSE /\ pc' = IF podIds = << >> THEN "finish" ELSE "fetch"
            /\ idx' = IF podIds = << >> THEN 0 ELSE 1
            /\ allPodData' = << >>
            /\ UNCHANGED <<outcome, dayOffset, statistics, kindIdx, toImport>>
    /\ UNCHANGED <<pods, historyDone, lastDataDate, data, store, queue, today,
                   podIds, requests, submitted, delayed, events,
                   cycles, config, atStart>>

(* chart_data.sum_actual_consumption / sum_actual_supply: the period sum   *)
(* the API reports, the sum of the values present.                         *)
RECURSIVE PeriodSum(_, _, _)
PeriodSum(chart, kind, n) ==
    IF n = 0 THEN 0
    ELSE PeriodSum(chart, kind, n - 1)
         + (IF ValueOf(chart[n], kind) = None THEN 0 ELSE ValueOf(chart[n], kind))

(* _aggregate_data(chart_data_by_period)["yesterday"], or nothing when the *)
(* period's request raised.                                                *)
AggregateData(result, chart, kinds) ==
    IF result # "ok" THEN << >>
    ELSE [k \in {kinds[i] : i \in 1..Len(kinds)} |-> PeriodSum(chart, k, Len(chart))]

(* pod_data of one pod: a request that raised leaves no chart_data_yesterday. *)
PodData(result, day, chart, kinds, now) ==
    [chart |-> IF result = "ok" THEN <<day>> ELSE << >>,
     aggregated_data |-> AggregateData(result, chart, kinds),
     cumulative_totals |-> << >>,
     last_update |-> now]

(* The first pod at or after position i that has chart_data_yesterday (0 if *)
(* none): the others are skipped by _import_current_statistics.            *)
NextWithChart(ids, all, i) ==
    LET S == {j \in i..Len(ids) : all[ids[j]].chart # << >>}
    IN  IF S = {} THEN 0 ELSE CHOOSE j \in S : \A k \in S : j <= k

(* What a raised request of yesterday's readings does to the cycle: it is  *)
(* logged and the loop continues.                                          *)
FetchFailure(result) == "continue"

(* A cycle that builds its result in the snapshot the sensors read. *)
VisibleSnapshotShared(snapshot, all_pod_data) == all_pod_data

(* self.data while the cycle builds its result: all_pod_data is a local    *)
(* dictionary, so the sensors keep reading the snapshot of the last        *)
(* completed cycle.                                                        *)
VisibleSnapshot(snapshot, all_pod_data) == snapshot

(* await self.api_client.get_chart_data(pod_id, period_start, period_end)  *)
(* for the period "yesterday", up to the next await.                       *)
Fetch(result) ==
    /\ pc = "fetch"
    /\ result # "ok" => events < MaxEvents
    /\ events' = IF result = "ok" THEN events ELSE events + 1
    /\ LET pod_id == podIds[idx]
           day == today - 1
           range == YesterdayRange(today)
           chart == ChartData(pod_id, range[1], range[2])
           all == (pod_id :> PodData(result, day, chart,
                                    EnabledSensorTypes(config), cycles))
                  @@ allPodData
           first == NextWithChart(podIds, all, 1)
       IN  /\ requests' = Append(requests,
                  [pod |-> pod_id, day |-> day, phase |-> "current",
                   result |-> result, delayed |-> delayed])
           /\ IF result # "ok" /\ FetchFailure(result) = "raise"
              THEN /\ pc' = "idle"
                   /\ outcome' = "auth_failed"
                   /\ CycleEnds
                   /\ UNCHANGED <<delayed, data>>
              ELSE /\ allPodData' = all
                   /\ data' = VisibleSnapshot(data, all)
                   /\ delayed' = (idx < Len(podIds))
                   /\ UNCHANGED <<outcome, dayOffset, statistics, toImport>>
                   /\ IF idx < Len(podIds)
                      THEN /\ idx' = idx + 1
                           /\ UNCHANGED <<pc, kindIdx>>
                      ELSE /\ pc' = IF first = 0 THEN "totals" ELSE "anchor"
                           /\ idx' = IF first = 0 THEN 1 ELSE first
                           /\ kindIdx' = 1
    /\ UNCHANGED <<pods, historyDone, lastDataDate, store, queue, today,
                   podIds, submitted, cycles, config, atStart>>

(***************************************************************************)
(* _import_current_statistics: per pod and sensor type, the anchor is read *)
(* and the cumulative points are built; then the pod's points are          *)
(* submitted.                                                              *)
(***************************************************************************)
(* statistics_to_import[sensor_type] built from the anchor just read. *)
CurrentBatch(pod_id, kind, chart, last_stats) ==
    [id |-> StatisticId(PodName(pod_id), kind),
     stats |-> BuildCurrent(HourlyStats(chart, kind), last_stats),
     path |-> "current",
     base |-> IF last_stats = << >> THEN 0 ELSE last_stats[1].sum,
     read |-> <<cycles>>,
     persisted |-> last_stats,
     held |-> << >>]

(* The async_add_external_statistics calls of one pod: the sensor types    *)
(* that have points to import.                                             *)
RECURSIVE CurrentSubmissions(_)
CurrentSubmissions(batches) ==
    IF batches = << >> THEN << >>
    ELSE (IF Head(batches).stats = << >> THEN << >>
          ELSE <<[Head(batches) EXCEPT !.held = LastStatistics(Held(Head(batches).id))]>>)
         \o CurrentSubmissions(Tail(batches))

(* await get_instance(hass).async_add_executor_job(get_last_statistics, ...) *)
(* in _import_current_statistics, up to the next await.  A read that       *)
(* raises leaves the function through its only handler, the one around the *)
(* loop over the pods: the pods that follow are not imported.              *)
Anchor(result) ==
    /\ pc = "anchor"
    /\ result # "ok" => events < MaxEvents
    /\ events' = IF result = "ok" THEN events ELSE events + 1
    /\ LET pod_id == podIds[idx]
           kinds == EnabledSensorTypes(config)
           kind == kinds[kindIdx]
           day == allPodData[pod_id].chart[1]
           chart == DayChart(pod_id, day)
           last_stats == LastStatistics(store[StatisticId(PodName(pod_id), kind)])
           batches == Append(toImport, CurrentBatch(pod_id, kind, chart, last_stats))
           sent == CurrentSubmissions(batches)
           following == NextWithChart(podIds, allPodData, idx + 1)
       IN  IF result # "ok"
           THEN /\ toImport' = << >>
                /\ kindIdx' = 1
                /\ pc' = "totals"
                /\ idx' = 1
                /\ UNCHANGED <<queue, submitted>>
           ELSE IF kindIdx < Len(kinds)
           THEN /\ kindIdx' = kindIdx + 1
                /\ toImport' = batches
                /\ UNCHANGED <<pc, idx, queue, submitted>>
           ELSE /\ queue' = queue \o OnlyStats(sent)
                /\ submitted' = submitted \o sent
                /\ toImport' = << >>
                /\ kindIdx' = 1
                /\ pc' = IF following = 0 THEN "totals" ELSE "anchor"
                /\ idx' = IF following = 0 THEN 1 ELSE following
    /\ atStart' = IF result = "ok" THEN atStart
                  ELSE [atStart EXCEPT !.failed = @ \cup {<<podIds[idx], "anchor">>}]
    /\ UNCHANGED <<pods, historyDone, lastDataDate, data, store, today, outcome,
                   podIds, dayOffset, statistics, allPodData, requests, delayed,
                   cycles, config>>

(* await ... get_last_statistics ... in                                    *)
(* _fetch_cumulative_totals_from_statistics, up to the next await.  A     *)
(* read that raises leaves the function through its only handler: the      *)
(* totals that were not read yet stay unset.                               *)
Totals(result) ==
    /\ pc = "totals"
    /\ result # "ok" => events < MaxEvents
    /\ events' = IF result = "ok" THEN events ELSE events + 1
    /\ LET pod_id == podIds[idx]
           kinds == EnabledSensorTypes(config)
           kind == kinds[kindIdx]
           last_stats == LastStatistics(store[StatisticId(PodName(pod_id), kind)])
           total == IF last_stats = << >> THEN 0 ELSE last_stats[1].sum
       IN  IF result # "ok"
           THEN /\ kindIdx' = 1
                /\ idx' = 0
                /\ pc' = "finish"
                /\ UNCHANGED allPodData
           ELSE /\ allPodData' = [allPodData EXCEPT ![pod_id].cumulative_totals =
                                      (kind :> total) @@ @]
                /\ IF kindIdx < Len(kinds)
                   THEN /\ kindIdx' = kindIdx + 1
                        /\ UNCHANGED <<pc, idx>>
                   ELSE /\ kindIdx' = 1
                        /\ IF idx < Len(podIds)
                           THEN /\ idx' = idx + 1
                                /\ UNCHANGED pc
                           ELSE /\ idx' = 0
                                /\ pc' = "finish"
    /\ atStart' = IF result = "ok" THEN atStart
                  ELSE [atStart EXCEPT !.failed = @ \cup {<<podIds[idx], "totals">>}]
    /\ UNCHANGED <<pods, historyDone, lastDataDate, data, store, queue, today,
                   outcome, podIds, dayOffset, statistics, toImport, requests,
                   submitted, delayed, cycles, config>>

(* self._last_data_date = yesterday_date; return all_pod_data *)
Finish ==
    /\ pc = "finish"
    /\ lastDataDate' = <<today - 1>>
    /\ data' = allPodData
    /\ pc' = "idle"
    /\ outcome' = "done"
    /\ CycleEnds
    /\ UNCHANGED <<pods, historyDone, store, queue, today, podIds, requests,
                   submitted, delayed, events, cycles, config, atStart>>

(***************************************************************************)
(* The environment: the recorder, the platform and the clock.              *)
(***************************************************************************)
Awaits == {"discover", "hist_fetch", "fetch", "anchor", "totals"}

(* The recorder thread runs the oldest queued import, while the cycle      *)
(* awaits or between cycles: its points are appended to the series.        *)
Commit ==
    /\ queue # << >>
    /\ pc \in Awaits \cup {"idle"}
    /\ store' = [store EXCEPT ![Head(queue).id] = @ \o Head(queue).stats]
    /\ queue' = Tail(queue)
    /\ UNCHANGED <<pods, historyDone, lastDataDate, data, today, pc, outcome,
                   podIds, idx, dayOffset, statistics, kindIdx, toImport,
                   allPodData, requests, submitted, delayed, events,
                   cycles, config, atStart>>

(* The platform cancels the cycle at an await. *)
Cancel ==
    /\ pc \in Awaits
    /\ events < MaxEvents
    /\ events' = events + 1
    /\ pc' = "idle"
    /\ outcome' = "cancelled"
    /\ CycleEnds
    /\ UNCHANGED <<pods, historyDone, lastDataDate, data, store, queue, today,
                   podIds, requests, submitted, delayed, cycles, config,
                   atStart>>

(* A local midnight passes between two cycles (the days before the first   *)
(* cycle only shift the calendar).                                         *)
Tick ==
    /\ pc = "idle"
    /\ cycles > 0
    /\ events < MaxEvents
    /\ events' = events + 1
    /\ today' = today + 1
    /\ UNCHANGED <<pods, historyDone, lastDataDate, data, store, queue, pc,
                   outcome, podIds, idx, dayOffset, statistics, kindIdx,
                   toImport, allPodData, requests, submitted, delayed,
                   cycles, config, atStart>>

Next ==
    \/ StartCycle
    \/ \E result \in Results, labels \in DiscoverResults :
           Discover(result, labels)
    \/ FirstRunCheck
    \/ \E result \in Results : HistFetch(result)
    \/ SmartPolling
    \/ \E result \in Results : Fetch(result)
    \/ \E result \in ReadResults : Anchor(result)
    \/ \E result \in ReadResults : Totals(result)
    \/ Finish
    \/ Commit
    \/ Cancel
    \/ Tick

Spec == Init /\ [][Next]_vars

(***************************************************************************)
(* The cumulative series build on its own: hourly buckets and an anchor    *)
(* drawn from bounded sets, the build run and its result appended to the   *)
(* store, then the build run again with the anchor read again.             *)
(***************************************************************************)
BuildSeries == StatisticId("A", SENSOR_TYPE_ACTUAL_CONSUMPTION)

(* The dictionaries hour -> hourly value. *)
HourlyInputs == UNION {[S -> 0..MaxValue] : S \in SUBSET (0..MaxHour)}

(* The last point the store holds before the first build, if any. *)
AnchorInputs ==
    {<< >>} \cup {<<[start |-> h, sum |-> s]>> : h \in (0 - 1)..MaxHour, s \in {0, MaxValue + 1}}

BuildInit ==
    /\ pods = {}
    /\ historyDone = TRUE
    /\ lastDataDate = << >>
    /\ data = << >>
    /\ \E anchor \in AnchorInputs :
           store = [id \in Series |-> IF id = BuildSeries THEN anchor ELSE << >>]
    /\ queue = << >>
    /\ today = 0
    /\ pc = "build"
    /\ outcome = "none"
    /\ podIds = << >>
    /\ idx = 0
    /\ dayOffset = 0
    /\ \E hours \in HourlyInputs :
           statistics = [NoStats EXCEPT ![SENSOR_TYPE_ACTUAL_CONSUMPTION] = SortedItems(hours)]
    /\ kindIdx = 0
    /\ toImport = << >>
    /\ allPodData = << >>
    /\ requests = << >>
    /\ submitted = << >>
    /\ delayed = FALSE
    /\ events = 0
    /\ cycles = 0
    /\ config = [point_of_delivery |-> <<"A">>, history_days |-> 0,
                 enable_supply_sensors |-> FALSE]
    /\ atStart = [historyDone |-> TRUE, discovery |-> "none", now |-> 0,
                  anchorDay |-> [p \in AllPods |-> << >>],
                  registry |-> {}, labels |-> << >>, data |-> << >>,
                  store |-> store, previous |-> "none", failed |-> {}]

(* One run of the build with the anchor read from the store, its result    *)
(* appended to the store (append_points) and kept in toImport.             *)
BuildAndAppend ==
    /\ pc = "build"
    /\ Len(toImport) < 2
    /\ LET built == BuildCurrent(statistics[SENSOR_TYPE_ACTUAL_CONSUMPTION],
                                 LastStatistics(store[BuildSeries]))
       IN  /\ toImport' = Append(toImport, built)
           /\ store' = [store EXCEPT ![BuildSeries] = @ \o built]
    /\ UNCHANGED <<pods, historyDone, lastDataDate, data, queue, today, pc,
                   outcome, podIds, idx, dayOffset, statistics, kindIdx,
                   allPodData, requests, submitted, delayed, events, cycles,
                   config, atStart>>

BuildNext == BuildAndAppend

SpecBuild == BuildInit /\ [][BuildNext]_vars

(***************************************************************************)
(* The pure functions on their own: the hourly aggregation followed by the *)
(* build, the statistic id and the request windows, each applied once to   *)
(* inputs drawn from bounded sets.  The input is held in allPodData and    *)
(* the result in toImport.                                                 *)
(***************************************************************************)
(* test_chart_data_with_none_values: the readings 10:15Z and 10:30Z, in    *)
(* thousandths.                                                            *)
TestChart ==
    <<[ts |-> 41, actual_consumption |-> 132, actual_supply |-> None],
      [ts |-> 42, actual_consumption |-> None, actual_supply |-> 500]>>

(* The readings of a response: an interval end, and per sensor type a     *)
(* value or none.                                                          *)
Readings ==
    [ts : 0..MaxQuarter,
     actual_consumption : {None} \cup 0..MaxValue,
     actual_supply : {None, 1}]

(* The responses of get_chart_data: readings in any order, timestamps      *)
(* possibly repeated.                                                      *)
Charts == {TestChart} \cup UNION {[1..n -> Readings] : n \in 0..MaxReadings}

(* The integration namespace. *)
DOMAIN_SSD_IMS == "ssd_ims"

(* The characters of a friendly name: letters of both cases, the           *)
(* underscore and one character outside [a-zA-Z0-9_].                      *)
NameChars == {"H", "h", "_", " "}

(* pod_name_mapping.get(pod_id, pod_id): the friendly names of a pod, or   *)
(* its id when it has none.                                                *)
PodNames(pod_id) ==
    {<<pod_id>>} \cup UNION {[1..n -> NameChars] : n \in 1..MaxNameLen}

(* re.sub(r"[^a-zA-Z0-9_]", "_", name) *)
ReplaceSpecial(name) ==
    [i \in 1..Len(name) |-> IF name[i] = " " THEN "_" ELSE name[i]]

(* re.sub(r"_+", "_", sanitized) *)
RECURSIVE CollapseUnderscores(_)
CollapseUnderscores(name) ==
    IF Len(name) < 2 THEN name
    ELSE IF name[1] = "_" /\ name[2] = "_" THEN CollapseUnderscores(Tail(name))
    ELSE <<name[1]>> \o CollapseUnderscores(Tail(name))

(* sanitized.strip("_") *)
RECURSIVE StripUnderscores(_)
StripUnderscores(name) ==
    IF name = << >> THEN name
    ELSE IF name[1] = "_" THEN StripUnderscores(Tail(name))
    ELSE IF name[Len(name)] = "_" THEN StripUnderscores(SubSeq(name, 1, Len(name) - 1))
    ELSE name

(* _sanitize_name(name) *)
SanitizeName(name) == StripUnderscores(CollapseUnderscores(ReplaceSpecial(name)))

(* str.lower() on the characters of the names. *)
Lower(name) ==
    [i \in 1..Len(name) |->
        CASE name[i] = "H" -> "h"
          [] name[i] = "A" -> "a"
          [] name[i] = "B" -> "b"
          [] OTHER -> name[i]]

(* statistic_name = f"{sanitized_friendly_name}_{statistic_type}".lower() *)
StatisticName(pod_name, sensor_type) ==
    Lower(SanitizeName(pod_name) \o <<"_", sensor_type>>)

(* statistic_id = f"{DOMAIN}:{statistic_name}" *)
ExternalStatisticId(pod_name, sensor_type) ==
    <<DOMAIN_SSD_IMS, ":">> \o StatisticName(pod_name, sensor_type)

(* A timezone-aware datetime: the wall-clock hour and the UTC offset. *)
LocalTime(hour) == [hour |-> hour, offset |-> TzOffset]

(* The instant of a datetime, as a UTC hour. *)
Instant(t) == t.hour - t.offset

(* now.replace(hour=0, minute=0, second=0, microsecond=0) *)
ReplaceHourZero(t) == [t EXCEPT !.hour = @ - (@ % HoursPerDay)]

(* t - timedelta(days=n): wall-clock arithmetic, the offset is kept. *)
MinusDays(t, n) == [t EXCEPT !.hour = @ - n * HoursPerDay]

(* A conversion that relabels the wall-clock time as UTC. *)
AsTimezoneUtcNaive(t) == [hour |-> t.hour, offset |-> 0]

(* t.astimezone(timezone.utc) *)
AsTimezoneUtc(t) == [hour |-> t.hour - t.offset, offset |-> 0]

(* helpers.calculate_yesterday_range(now) *)
calculate_yesterday_range(now) ==
    LET today_midnight == ReplaceHourZero(now)
        period_start == MinusDays(today_midnight, 1)
        period_end == AsTimezoneUtc(today_midnight)
    IN  <<period_start, period_end>>

(* const._calculate_yesterday_range(now) *)
const_calculate_yesterday_range(now) ==
    LET today_midnight == ReplaceHourZero(now)
        period_start == MinusDays(today_midnight, 1)
        period_end == AsTimezoneUtc(today_midnight)
    IN  <<period_start, period_end>>

(* day_start and day_end of a day_offset in _import_history_statistics. *)
HistoryWindow(now, day_offset) ==
    LET end_date == ReplaceHourZero(now)
        day_end_local == MinusDays(end_date, day_offset - 1)
        day_start == MinusDays(day_end_local, 1)
        day_end == AsTimezoneUtc(day_end_local)
    IN  <<day_start, day_end>>

(***************************************************************************)
(* async_migrate_entry of a version 1 entry (__init__.py): the configured  *)
(* identifiers, session ids or display labels, are converted to stable     *)
(* ids.  Identifiers, labels and stable ids are sequences of characters.   *)
(***************************************************************************)
MaxConfigured == 2
SESSION_ID_LEN == 50

(* pod.value: the session id of a point, longer than SESSION_ID_LEN. *)
PodValue(text) == [i \in 1..(SESSION_ID_LEN + 1) |-> Head(text)]

(* The match of ^([A-Z0-9]+): the leading run of uppercase-alphanumeric    *)
(* characters, empty when there is no match.                               *)
RECURSIVE LeadingChars(_)
LeadingChars(text) ==
    IF text = << >> \/ Head(text) \notin UpperAlnum THEN << >>
    ELSE <<Head(text)>> \o LeadingChars(Tail(text))

(* current_pod_text.startswith(pod_number) *)
StartsWith(text, prefix) ==
    Len(text) >= Len(prefix) /\ SubSeq(text, 1, Len(prefix)) = prefix

(* The points whose pod.id does not raise ValueError, in the order of the  *)
(* response: the keys of pod_mapping and of pod_text_to_id.                *)
PointsWithId(labels) == SelectSeq(labels, LAMBDA text : PodId(text) # << >>)

(* The identifiers the version 1 entry can hold: display labels, a stable  *)
(* id, an identifier of no point, session ids.                             *)
MigrationIdentifiers ==
    {LabelA, LabelB, LeadingChars(LabelA), <<"9">>,
     PodValue(LabelA), PodValue(LabelB)}

RECURSIVE IdentifierLists(_)
IdentifierLists(n) ==
    IF n = 0 THEN {<< >>}
    ELSE IdentifierLists(n - 1)
         \cup {Append(l, x) : l \in {k \in IdentifierLists(n - 1) : Len(k) = n - 1},
                              x \in MigrationIdentifiers}

(* The loop over point_of_delivery with pod_mapping (session id -> stable  *)
(* id): an identifier that is no session id of a point is removed.         *)
RECURSIVE MigrateSessionIds(_, _)
MigrateSessionIds(point_of_delivery, labels) ==
    IF point_of_delivery = << >> THEN << >>
    ELSE LET session_pod_id == Head(point_of_delivery)
             found == SelectSeq(PointsWithId(labels),
                                LAMBDA text : PodValue(text) = session_pod_id)
         IN  (IF found # << >> THEN <<LeadingChars(found[Len(found)])>> ELSE << >>)
             \o MigrateSessionIds(Tail(point_of_delivery), labels)

(* pod_text in pod_text_to_id *)
InTextToId(pod_text, labels) ==
    \E i \in 1..Len(PointsWithId(labels)) : PointsWithId(labels)[i] = pod_text

(* The loop that matches by text and then by POD number: the first point   *)
(* whose text starts with the leading run of the identifier.               *)
RECURSIVE ConvertByNumber(_, _)
ConvertByNumber(point_of_delivery, labels) ==
    IF point_of_delivery = << >> THEN << >>
    ELSE LET pod_text == Head(point_of_delivery)
             pod_number == LeadingChars(pod_text)
             found == SelectSeq(PointsWithId(labels),
                                LAMBDA text : StartsWith(text, pod_number))
         IN  (IF InTextToId(pod_text, labels) THEN <<LeadingChars(pod_text)>>
              ELSE IF pod_number # << >> /\ found # << >>
                   THEN <<LeadingChars(found[1])>>
                   ELSE << >>)
             \o ConvertByNumber(Tail(point_of_delivery), labels)

(* The loop that converts the texts found and removes the others. *)
RECURSIVE ConvertByText(_, _)
ConvertByText(point_of_delivery, labels) ==
    IF point_of_delivery = << >> THEN << >>
    ELSE LET pod_text == Head(point_of_delivery)
         IN  (IF InTextToId(pod_text, labels) THEN <<LeadingChars(pod_text)>>
              ELSE << >>)
             \o ConvertByText(Tail(point_of_delivery), labels)

(* The branch for display labels.  Under `if missing_pods:` the loop that  *)
(* matches by number is followed by an `else:` at the indentation of the   *)
(* `for`: it is the else of the loop, which never breaks, so the loop that *)
(* converts by text always runs after it and assigns the list anew.  The   *)
(* entry is written when the list differs; with no text missing nothing    *)
(* is converted.                                                           *)
UpdatedPointOfDelivery(point_of_delivery, labels) ==
    LET missing_pods == SelectSeq(point_of_delivery,
                                  LAMBDA pod : ~InTextToId(pod, labels))
        by_number == ConvertByNumber(point_of_delivery, labels)
        updated_point_of_delivery == ConvertByText(point_of_delivery, labels)
    IN  IF missing_pods # << >> /\ updated_point_of_delivery # point_of_delivery
        THEN updated_point_of_delivery
        ELSE point_of_delivery

(* How the API answers the migration: it authenticates and returns the     *)
(* points, it refuses the credentials, or a call raises.                   *)
MigrationApi == {"ok", "auth_failed", "error"}

(* async_migrate_entry for entry.version == 1: the value it returns and    *)
(* the point_of_delivery of the entry after it.                            *)
async_migrate_entry(point_of_delivery, api, labels) ==
    IF /\ point_of_delivery # << >>
       /\ \E i \in 1..Len(point_of_delivery) :
              Len(point_of_delivery[i]) > SESSION_ID_LEN
    THEN IF api = "ok"
         THEN [ok |-> TRUE,
               point_of_delivery |-> MigrateSessionIds(point_of_delivery, labels)]
         ELSE [ok |-> FALSE, point_of_delivery |-> point_of_delivery]
    ELSE IF point_of_delivery # << >> /\ api = "ok"
         THEN [ok |-> TRUE,
               point_of_delivery |-> UpdatedPointOfDelivery(point_of_delivery, labels)]
         ELSE [ok |-> TRUE, point_of_delivery |-> point_of_delivery]

(* The inputs: a response, the friendly names of the two pods with a       *)
(* sensor type, a time of day with a day_offset, or a version 1 entry with *)
(* the answer of the API.                                                  *)
PureInputs ==
    {[fn |-> "aggregate", chart |-> c] : c \in Charts}
    \cup {[fn |-> "statistic_id", names |-> [A |-> a, B |-> b], sensor_type |-> k] :
             a \in PodNames("A"), b \in PodNames("B"), k \in SensorTypes}
    \cup {[fn |-> "range", now |-> LocalTime(h), day_offset |-> d] :
             h \in 0..(MaxNow * HoursPerDay), d \in 1..MaxHistoryDays}
    \cup {[fn |-> "migrate", point_of_delivery |-> l, api |-> a, labels |-> t] :
             l \in IdentifierLists(MaxConfigured), a \in MigrationApi,
             t \in DiscoverResults}

PureInit ==
    /\ pods = {}
    /\ historyDone = TRUE
    /\ lastDataDate = << >>
    /\ data = << >>
    /\ store = [id \in Series |-> << >>]
    /\ queue = << >>
    /\ today = 0
    /\ pc = "input"
    /\ outcome = "none"
    /\ podIds = << >>
    /\ idx = 0
    /\ dayOffset = 0
    /\ statistics = NoStats
    /\ kindIdx = 0
    /\ toImport = << >>
    /\ allPodData \in PureInputs
    /\ requests = << >>
    /\ submitted = << >>
    /\ delayed = FALSE
    /\ events = 0
    /\ cycles = 0
    /\ config = [point_of_delivery |-> <<"A">>, history_days |-> 0,
                 enable_supply_sensors |-> TRUE]
    /\ atStart = [historyDone |-> TRUE, discovery |-> "none", now |-> 0,
                  anchorDay |-> [p \in AllPods |-> << >>],
                  registry |-> {}, labels |-> << >>, data |-> << >>,
                  store |-> store, previous |-> "none", failed |-> {}]

PureUnchanged ==
    UNCHANGED <<pods, historyDone, lastDataDate, data, store, queue, today,
                outcome, podIds, idx, dayOffset, statistics, kindIdx,
                allPodData, requests, submitted, delayed, events, cycles,
                config, atStart>>

(* The aggregation loop over one response, for both sensor types, and the  *)
(* build of the consumption series with no last statistics.                *)
AggregateAndBuild ==
    /\ pc = "input"
    /\ allPodData.fn = "aggregate"
    /\ pc' = "output"
    /\ toImport' =
           [hourly_data |-> [k \in SensorTypes |->
                                HourlyData(allPodData.chart, k, Len(allPodData.chart))],
            stats |-> BuildCurrent(
                          HourlyStats(allPodData.chart, SENSOR_TYPE_ACTUAL_CONSUMPTION),
                          << >>)]
    /\ PureUnchanged

(* The statistic id of each pod for the sensor type. *)
BuildStatisticIds ==
    /\ pc = "input"
    /\ allPodData.fn = "statistic_id"
    /\ pc' = "output"
    /\ toImport' = [p \in AllPods |->
                       ExternalStatisticId(allPodData.names[p], allPodData.sensor_type)]
    /\ PureUnchanged

(* The windows of yesterday, by both helpers, and of the day_offset and    *)
(* the day after it in the history import.                                 *)
CalculateRanges ==
    /\ pc = "input"
    /\ allPodData.fn = "range"
    /\ pc' = "output"
    /\ toImport' =
           [helpers |-> calculate_yesterday_range(allPodData.now),
            const |-> const_calculate_yesterday_range(allPodData.now),
            window |-> HistoryWindow(allPodData.now, allPodData.day_offset),
            following |-> IF allPodData.day_offset > 1
                          THEN HistoryWindow(allPodData.now, allPodData.day_offset - 1)
                          ELSE const_calculate_yesterday_range(
                                   [allPodData.now EXCEPT !.hour = @ + HoursPerDay])]
    /\ PureUnchanged

(* The migration of a version 1 entry. *)
MigrateEntry ==
    /\ pc = "input"
    /\ allPodData.fn = "migrate"
    /\ pc' = "output"
    /\ toImport' = async_migrate_entry(allPodData.point_of_delivery,
                                       allPodData.api, allPodData.labels)
    /\ PureUnchanged

PureNext ==
    AggregateAndBuild \/ BuildStatisticIds \/ CalculateRanges \/ MigrateEntry

SpecPure == PureInit /\ [][PureNext]_vars

(***************************************************************************)
(* The coordinator's configuration: __init__ and update_config.  A         *)
(* configuration is a dict; a key it does not hold is the empty sequence,  *)
(* a key it holds the sequence of its value.                               *)
(***************************************************************************)
DEFAULT_SCAN_INTERVAL == 360
SCAN_INTERVAL_12H == 720

(* Scan intervals the options offer. *)
ScanIntervals == {DEFAULT_SCAN_INTERVAL, SCAN_INTERVAL_12H}

(* The dicts over scan_interval and enable_supply_sensors. *)
ConfigDicts ==
    [scan_interval : {<< >>} \cup {<<m>> : m \in ScanIntervals},
     enable_supply_sensors : {<< >>} \cup {<<b>> : b \in BOOLEAN}]

(* d.get(key, default) *)
DictGet(d, key, default) == IF d[key] = << >> THEN default ELSE d[key][1]

(* d.update(new): the keys of new replace those of d. *)
DictUpdate(d, new) ==
    [key \in DOMAIN d |-> IF new[key] # << >> THEN new[key] ELSE d[key]]

(* __init__: the coordinator holds the config it is given and its          *)
(* update_interval is config.get("scan_interval", DEFAULT_SCAN_INTERVAL).  *)
ConfigInit ==
    /\ pods = {}
    /\ historyDone = TRUE
    /\ lastDataDate = << >>
    /\ data = << >>
    /\ store = [id \in Series |-> << >>]
    /\ queue = << >>
    /\ today = 0
    /\ pc = "configured"
    /\ outcome = "none"
    /\ podIds = << >>
    /\ idx = 0
    /\ dayOffset = 0
    /\ statistics = NoStats
    /\ kindIdx = 0
    /\ config \in ConfigDicts
    /\ toImport = [update_interval |->
                       DictGet(config, "scan_interval", DEFAULT_SCAN_INTERVAL),
                   refresh_requested |-> FALSE]
    /\ allPodData = [fn |-> "init"]
    /\ requests = << >>
    /\ submitted = << >>
    /\ delayed = FALSE
    /\ events = 0
    /\ cycles = 0
    /\ atStart = [historyDone |-> TRUE, discovery |-> "none", now |-> 0,
                  anchorDay |-> [p \in AllPods |-> << >>],
                  registry |-> {}, labels |-> << >>, data |-> << >>,
                  store |-> store, previous |-> "none", failed |-> {}]

(* update_config(new_config): toImport holds update_interval and whether   *)
(* the call requested a refresh, allPodData the call and what held before. *)
UpdateConfig(new_config) ==
    /\ pc = "configured"
    /\ events < MaxEvents
    /\ events' = events + 1
    /\ LET old_config == config
           sensor_config_changed ==
               old_config.enable_supply_sensors # new_config.enable_supply_sensors
           scan_interval_changed ==
               old_config.scan_interval # new_config.scan_interval
           new_scan_interval ==
               DictGet(new_config, "scan_interval", DEFAULT_SCAN_INTERVAL)
       IN  /\ config' = DictUpdate(config, new_config)
           /\ toImport' = [update_interval |->
                               IF scan_interval_changed THEN new_scan_interval
                               ELSE toImport.update_interval,
                           refresh_requested |-> sensor_config_changed]
           /\ allPodData' = [fn |-> "update_config",
                             old_config |-> old_config,
                             new_config |-> new_config,
                             update_interval |-> toImport.update_interval]
    /\ UNCHANGED <<pods, historyDone, lastDataDate, data, store, queue, today,
                   pc, outcome, podIds, idx, dayOffset, statistics, kindIdx,
                   requests, submitted, delayed, cycles, atStart>>

ConfigNext == \E new_config \in ConfigDicts : UpdateConfig(new_config)

SpecConfig == ConfigInit /\ [][ConfigNext]_vars

(***************************************************************************)
(* Properties.                                                             *)
(***************************************************************************)
Done == pc = "idle" /\ outcome \in {"done", "up_to_date"}

(* The points of a sequence have pairwise distinct starts and sums that do *)
(* not decrease in start order.                                            *)
Monotone(points) ==
    \A i, j \in 1..Len(points) :
        /\ i # j => points[i].start # points[j].start
        /\ points[i].start < points[j].start => points[i].sum <= points[j].sum

(* C1: for every series the points held by the statistics store have       *)
(* pairwise distinct start timestamps and cumulative sums that are         *)
(* non-decreasing in start order.                                          *)
C1_StoreMonotone == \A id \in Series : Monotone(store[id])

(* The energy the meter recorded in one hour: the hourly delta. *)
HourDelta(p, kind, hour) ==
    LET Q == {q \in (4 * hour + 1)..(4 * hour + 4) : ValueAt(p, kind, q) # None}
        v(q) == ValueAt(p, kind, q)
    IN  25 * ((IF 4 * hour + 1 \in Q THEN v(4 * hour + 1) ELSE 0)
              + (IF 4 * hour + 2 \in Q THEN v(4 * hour + 2) ELSE 0)
              + (IF 4 * hour + 3 \in Q THEN v(4 * hour + 3) ELSE 0)
              + (IF 4 * hour + 4 \in Q THEN v(4 * hour + 4) ELSE 0))

(* C2: each hour's delta enters the running total exactly once: for every  *)
(* two consecutive points of a series in the store, the later sum minus    *)
(* the earlier sum is the hourly delta of the later point's hour.          *)
C2_NoDoubleCount ==
    \A id \in Series : \A i \in 1..(Len(store[id]) - 1) :
        store[id][i + 1].sum - store[id][i].sum
            = HourDelta(id[1], id[2], store[id][i + 1].start)

(* C3: when the build has run, its result was appended to the store and    *)
(* the build runs again on the same buckets with the anchor read again,    *)
(* the second run emits nothing.                                           *)
C3_SecondBuildEmpty ==
    (pc = "build" /\ Len(toImport) = 2) => toImport[2] = << >>

C3_Witness ==
    /\ pc = "build"
    /\ Len(toImport) = 2
    /\ Len(toImport[1]) >= 2
    /\ Len(store[BuildSeries]) > Len(toImport[1])
    /\ Len(statistics[SENSOR_TYPE_ACTUAL_CONSUMPTION]) > Len(toImport[1])

(* C4: in the history import as in the current import, the running sum of  *)
(* a series built for the store starts from the sum of the last point      *)
(* persisted for the series, and from 0 only when there is none.           *)
C4_RunningSumStartsAtAnchor ==
    \A i \in 1..Len(submitted) :
        submitted[i].base = IF submitted[i].persisted = << >> THEN 0
                            ELSE submitted[i].persisted[1].sum

(* C5: every point submitted for a series starts strictly after the last   *)
(* point the store holds for the series at the moment of submission.       *)
C5_SubmittedAfterHeld ==
    \A i \in 1..Len(submitted) :
        submitted[i].held # << >> =>
            \A k \in 1..Len(submitted[i].stats) :
                submitted[i].stats[k].start > submitted[i].held[1].start

(* The days requested for a pod in one phase of the cycle, in order. *)
RECURSIVE RequestedDays(_, _, _)
RequestedDays(reqs, p, phase) ==
    IF reqs = << >> THEN << >>
    ELSE (IF Head(reqs).pod = p /\ Head(reqs).phase = phase
          THEN <<Head(reqs).day>> ELSE << >>)
         \o RequestedDays(Tail(reqs), p, phase)

InCycle(p) == \E i \in 1..Len(podIds) : podIds[i] = p

(* C6: when the store's last point of a pod lies on day D before           *)
(* yesterday, the cycle requests every day from D+1 through yesterday.     *)
C6_GapFilled ==
    Done =>
        \A p \in AllPods :
            (InCycle(p) /\ atStart.anchorDay[p] # << >>) =>
                \A d \in (atStart.anchorDay[p][1] + 1)..(atStart.now - 1) :
                    \E i \in 1..Len(requests) :
                        requests[i].pod = p /\ requests[i].day = d

(* The history_days days that end with yesterday, in ascending order. *)
BackfillDays(now, history_days) == [i \in 1..history_days |-> now - history_days + i - 1]

C8_PartialFailureIsolation ==
    (pc = "idle" /\ outcome = "done"
        /\ \E i \in 1..Len(requests) : requests[i].result = "error") =>
        /\ \A p \in AllPods :
               InCycle(p) =>
                   /\ RequestedDays(requests, p, "current") = <<atStart.now - 1>>
                   /\ ~atStart.historyDone =>
                          Len(RequestedDays(requests, p, "history")) = config.history_days
        /\ \A i \in 1..Len(submitted) : Monotone(submitted[i].stats)

C8_Witness ==
    /\ pc = "idle" /\ outcome = "done"
    /\ Len(podIds) = 2
    /\ Len(requests) = 6
    /\ requests[1].result = "error"
    /\ \E i \in 1..Len(submitted) :
           /\ submitted[i].id[1] = requests[1].pod
           /\ submitted[i].path = "history"
           /\ Len(submitted[i].stats) >= 2

(* C9: a cycle in which a request for interval readings raised an          *)
(* authentication error never completes: it ends as FAILED(auth).          *)
C9_AuthPropagates ==
    (pc = "idle" /\ \E i \in 1..Len(requests) : requests[i].result = "auth") =>
        outcome \in {"auth_failed", "cancelled"}

(* C10: a discovery that fails with an authentication error ends the cycle *)
(* as FAILED(auth), with no readings requested and nothing submitted.      *)
C10_DiscoveryAuthFails ==
    atStart.discovery = "auth" =>
        /\ pc = "idle"
        /\ outcome = "auth_failed"
        /\ requests = << >>
        /\ submitted = << >>

C10_Witness ==
    /\ atStart.discovery = "auth"
    /\ outcome = "auth_failed"
    /\ cycles = 2
    /\ \E id \in Series : store[id] # << >>

(* C11: a cycle that an exception ends is reported as an authentication    *)
(* failure or as a generic update failure; a discovery that returned zero  *)
(* points, like one that raised another error, ends the cycle as a generic *)
(* update failure, with nothing requested, and the cycle does not go on    *)
(* with an empty registry.                                                 *)
C11_FailuresReported ==
    /\ pc = "idle" =>
           outcome \in {"none", "done", "up_to_date", "cancelled",
                        "auth_failed", "update_failed"}
    /\ atStart.discovery \in {"empty", "error"} =>
           /\ pc = "idle"
           /\ outcome = "update_failed"
           /\ requests = << >>
           /\ pods = atStart.registry

C11_Witness ==
    /\ atStart.discovery = "empty"
    /\ outcome = "update_failed"
    /\ atStart.registry # {}
    /\ data # << >>

(* The failed reads of the statistics of a pod in the running cycle. *)
ReadFailed(p) == \E step \in {"anchor", "totals"} : <<p, step>> \in atStart.failed

(* The request of yesterday's readings of a pod succeeded in the cycle. *)
Fetched(p) ==
    \E i \in 1..Len(requests) :
        /\ requests[i].pod = p
        /\ requests[i].phase = "current"
        /\ requests[i].result = "ok"

(* C12: when the cycle completes after a read of the statistics raised for *)
(* one pod, every other pod has its cumulative totals in the snapshot, and *)
(* every other pod that was fetched and had nothing recorded for yesterday *)
(* has its statistics submitted.                                           *)
C12_PointFailureIsolation ==
    (pc = "idle" /\ outcome = "done" /\ atStart.failed # {}) =>
        \A p \in AllPods :
            (InCycle(p) /\ ~ReadFailed(p)) =>
                /\ \A i \in 1..Len(EnabledSensorTypes(config)) :
                       EnabledSensorTypes(config)[i]
                           \in DOMAIN data[p].cumulative_totals
                /\ (Fetched(p) /\ atStart.historyDone
                      /\ atStart.anchorDay[p] # <<atStart.now - 1>>) =>
                       \E i \in 1..Len(submitted) : submitted[i].id[1] = PodName(p)

(* C13: a cycle that starts with a registry that is not empty and holds    *)
(* every configured pod id makes no list-points-of-delivery call.          *)
C13_DiscoveryAtMostOnce ==
    (/\ atStart.registry # {}
     /\ \A i \in 1..Len(config.point_of_delivery) :
            config.point_of_delivery[i] \in atStart.registry) =>
        atStart.discovery = "none"

(* C14: a cycle that starts with a registry that is not empty and lacks a  *)
(* configured pod id invokes discovery.                                    *)
C14_RediscoverMissing ==
    (/\ cycles > 0
     /\ atStart.registry # {}
     /\ \E i \in 1..Len(config.point_of_delivery) :
            config.point_of_delivery[i] \notin atStart.registry) =>
        atStart.discovery # "none"

(* C15: a discovery that returned points succeeds, and its registry holds  *)
(* exactly the points whose label starts with an id, each under that id: a *)
(* label without an id is dropped (the labels "A (Rd)" and "B" give the    *)
(* registry {A, B}, the labels "B" and "(no)" the registry {B}).           *)
C15_InvalidLabelDropped ==
    (atStart.discovery = "ok" /\ atStart.labels # << >>) =>
        LET labels == atStart.labels
            valid == {i \in 1..Len(labels) : labels[i][1] \in UpperAlnum}
        IN  /\ outcome \notin {"auth_failed", "update_failed"}
            /\ \A i \in valid : LeadingRun(labels[i]) \in pods
            /\ \A p \in pods : \E i \in valid : LeadingRun(labels[i]) = p
            /\ labels = <<LabelA, LabelB>> => pods = {"A", "B"}
            /\ labels = <<LabelB, LabelNoId>> => pods = {"B"}
            /\ labels = <<LabelNoId>> => pods = {}

C15_Witness ==
    /\ atStart.labels = <<LabelB, LabelNoId>>
    /\ pods = {"B"}
    /\ pc = "idle"
    /\ outcome = "done"
    /\ DOMAIN data = {"B"}

(* The cumulative sum of the last point of a sequence of points, 0 if none. *)
LastSum(points) ==
    IF points = << >> THEN 0 ELSE LastStatistics(points)[1].sum

(* C16: when a cycle completes, for every pod of the snapshot and every    *)
(* enabled sensor type, cumulative_totals holds the cumulative sum of the  *)
(* last point of the series, the points submitted in the cycle included,   *)
(* and last_update is the cycle's timestamp.  Stated for the cycles in     *)
(* which no read of the statistics raised.                                 *)
C16_TotalsAreLatest ==
    (pc = "idle" /\ outcome = "done" /\ atStart.failed = {}) =>
        \A p \in DOMAIN data :
            /\ data[p].last_update = cycles
            /\ \A i \in 1..Len(EnabledSensorTypes(config)) :
                   LET kind == EnabledSensorTypes(config)[i]
                   IN  /\ kind \in DOMAIN data[p].cumulative_totals
                       /\ data[p].cumulative_totals[kind]
                              = LastSum(Held(StatisticId(PodName(p), kind)))

(* C17: a cycle ends as already up to date exactly when it reaches the     *)
(* poll with yesterday as the last data date and a snapshot that is not    *)
(* empty; it has then requested no readings and submitted no statistics,   *)
(* and the snapshot and the store are those the cycle started with.        *)
C17_UpToDateSkips ==
    /\ outcome = "up_to_date" =>
           /\ pc = "idle"
           /\ lastDataDate = <<atStart.now - 1>>
           /\ data # << >>
           /\ requests = << >>
           /\ submitted = << >>
           /\ data = atStart.data
           /\ store = atStart.store
           /\ queue = << >>
    /\ (outcome = "running" /\ pc \in {"fetch", "anchor", "totals", "finish"}) =>
           ~(lastDataDate = <<atStart.now - 1>> /\ data # << >>)

C17_Witness ==
    /\ pc = "idle"
    /\ outcome = "up_to_date"
    /\ cycles = 2
    /\ DOMAIN data = {"A", "B"}
    /\ SENSOR_TYPE_ACTUAL_CONSUMPTION \in DOMAIN data["A"].cumulative_totals
    /\ data["A"].cumulative_totals[SENSOR_TYPE_ACTUAL_CONSUMPTION] > 0

(* points is a prefix of later. *)
IsPrefix(points, later) ==
    /\ Len(points) <= Len(later)
    /\ SubSeq(later, 1, Len(points)) = points

(* C18: while a cycle runs and after it failed or was cancelled, the store *)
(* still holds every point it held when the cycle started and the snapshot *)
(* the sensors read is the one the cycle started with.                     *)
C18_FailureKeepsPublished ==
    outcome \in {"running", "auth_failed", "update_failed", "cancelled"} =>
        /\ data = atStart.data
        /\ \A id \in Series : IsPrefix(atStart.store[id], store[id])

C18_Witness ==
    /\ pc = "idle"
    /\ outcome = "update_failed"
    /\ data # << >>
    /\ data = atStart.data
    /\ \E id \in Series : store[id] # << >>

(* Every two consecutive points of a series differ by the hourly delta of  *)
(* the later point's hour.                                                 *)
CountedOnce(id, points) ==
    \A i \in 1..(Len(points) - 1) :
        points[i + 1].sum - points[i].sum
            = HourDelta(id[1], id[2], points[i + 1].start)

(* C19: when a cycle was cancelled after it had submitted statistics that  *)
(* are valid, and the next cycle has run to completion, each of its        *)
(* anchors read with the earlier imports recorded, and its imports are     *)
(* recorded, every series has distinct timestamps and non-decreasing sums  *)
(* and no hour is counted twice.                                           *)
C19_CancelSafeToResume ==
    (/\ pc = "idle"
     /\ outcome = "done"
     /\ atStart.previous = "cancelled"
     /\ \E id \in Series : atStart.store[id] # << >>
     /\ \A id \in Series : /\ Monotone(atStart.store[id])
                           /\ CountedOnce(id, atStart.store[id])
     /\ \A i \in 1..Len(submitted) :
            submitted[i].path = "current" => submitted[i].held = submitted[i].persisted
     /\ atStart.failed = {}
     /\ queue = << >>) =>
        \A id \in Series :
            /\ Monotone(store[id])
            /\ CountedOnce(id, store[id])

(* The anchor the first build read: what the series held before the builds. *)
FirstAnchor ==
    SubSeq(store[BuildSeries], 1,
           Len(store[BuildSeries]) - Len(toImport[1])
               - (IF Len(toImport) = 2 THEN Len(toImport[2]) ELSE 0))

(* The sum of the hourly values of the buckets of a set of positions. *)
RECURSIVE SumValues(_, _)
SumValues(items, S) ==
    IF S = {} THEN 0
    ELSE LET i == CHOOSE x \in S : TRUE
         IN  items[i].hourly_value + SumValues(items, S \ {i})

(* C20: the build emits, in ascending hour order, exactly the buckets      *)
(* whose hour is after the anchor's, each with the anchor's sum plus the   *)
(* deltas of the emitted buckets up to it; with an anchor at hour 0 and    *)
(* buckets for the hours 0, 1, 2 only the hours 1 and 2 are emitted.       *)
C20_BuildSkipsAndAccumulates ==
    (pc = "build" /\ Len(toImport) >= 1) =>
        LET items == statistics[SENSOR_TYPE_ACTUAL_CONSUMPTION]
            out == toImport[1]
            kept == {i \in 1..Len(items) :
                        FirstAnchor = << >> \/ items[i].start > FirstAnchor[1].start}
            base == IF FirstAnchor = << >> THEN 0 ELSE FirstAnchor[1].sum
        IN  /\ Len(out) = Cardinality(kept)
            /\ \A k \in 1..(Len(out) - 1) : out[k].start < out[k + 1].start
            /\ \A i \in kept :
                   \E k \in 1..Len(out) :
                       /\ out[k].start = items[i].start
                       /\ out[k].sum = base + SumValues(items,
                              {j \in kept : items[j].start <= items[i].start})
            /\ (/\ FirstAnchor # << >>
                /\ FirstAnchor[1].start = 0
                /\ {items[i].start : i \in 1..Len(items)} = {0, 1, 2}) =>
                   <<out[1].start, out[2].start>> = <<1, 2>> /\ Len(out) = 2

C20_Witness ==
    /\ pc = "build"
    /\ Len(toImport) >= 1
    /\ FirstAnchor # << >>
    /\ FirstAnchor[1].start = 0
    /\ FirstAnchor[1].sum > 0
    /\ {statistics[SENSOR_TYPE_ACTUAL_CONSUMPTION][i].start :
            i \in 1..Len(statistics[SENSOR_TYPE_ACTUAL_CONSUMPTION])} = {0, 1, 2}
    /\ Len(toImport[1]) = 2
    /\ toImport[1][1].sum > FirstAnchor[1].sum
    /\ toImport[1][2].sum > toImport[1][1].sum

(* C21: for every series built in a cycle the anchor is read from the      *)
(* statistics store within that cycle, after the readings were fetched and *)
(* before the points are computed: every submission of the cycle carries   *)
(* an anchor read in this cycle.                                           *)
C21_AnchorReadBeforeBuild ==
    \A i \in 1..Len(submitted) : submitted[i].read = <<cycles>>

(* The hour a reading that ends at quarter ts is expected in: a reading   *)
(* that ends on the hour belongs to the hour before.                       *)
ExpectedHour(ts) == IF ts % 4 = 0 THEN ts \div 4 - 1 ELSE ts \div 4

Aggregated == pc = "output" /\ allPodData.fn = "aggregate"

(* The readings of a chart that lie in an hour and have a value. *)
PresentIn(chart, kind, hour) ==
    {i \in 1..Len(chart) :
        ExpectedHour(chart[i].ts) = hour /\ ValueOf(chart[i], kind) # None}

(* C22: each reading is assigned to the bucket of the hour of its interval *)
(* start: a reading that ends at hh:00 goes to the bucket hh-1, readings   *)
(* that end at hh:15, hh:30, hh:45 and (hh+1):00 share the bucket hh.      *)
C22_BucketOfIntervalStart ==
    Aggregated =>
        \A k \in SensorTypes :
            LET chart == allPodData.chart
                valued == {i \in 1..Len(chart) : ValueOf(chart[i], k) # None}
            IN  /\ DOMAIN toImport.hourly_data[k]
                       = {ExpectedHour(chart[i].ts) : i \in valued}
                /\ \A i, j \in valued :
                       (chart[i].ts = 4 /\ chart[j].ts \in 1..3) =>
                           /\ 0 \in DOMAIN toImport.hourly_data[k]
                           /\ Cardinality(DOMAIN toImport.hourly_data[k])
                                  < Cardinality(valued)

C22_Witness ==
    /\ Aggregated
    /\ Len(allPodData.chart) = 2
    /\ allPodData.chart[1].ts = 4
    /\ allPodData.chart[2].ts = 5
    /\ DOMAIN toImport.hourly_data[SENSOR_TYPE_ACTUAL_CONSUMPTION] = {0, 1}

(* The sum of the values of the readings of a set. *)
RECURSIVE SumOfReadings(_, _, _)
SumOfReadings(chart, kind, S) ==
    IF S = {} THEN 0
    ELSE LET i == CHOOSE x \in S : TRUE
         IN  ValueOf(chart[i], kind) + SumOfReadings(chart, kind, S \ {i})

(* C23: for each sensor type the delta of an hourly bucket is 0.25 times   *)
(* the sum of the values present among the readings of the hour: an hour   *)
(* whose values are all absent has no bucket, and readings with the same   *)
(* timestamp are each added.                                               *)
C23_BucketIsQuarterOfSum ==
    Aggregated =>
        \A k \in SensorTypes :
            LET chart == allPodData.chart
                hourly == toImport.hourly_data[k]
                hours == DOMAIN hourly
                         \cup {ExpectedHour(chart[i].ts) : i \in 1..Len(chart)}
            IN  \A h \in hours :
                    IF PresentIn(chart, k, h) = {} THEN h \notin DOMAIN hourly
                    ELSE /\ h \in DOMAIN hourly
                         /\ 4 * hourly[h]
                                = 100 * SumOfReadings(chart, k, PresentIn(chart, k, h))

C23_Witness ==
    /\ Aggregated
    /\ Len(allPodData.chart) = 2
    /\ allPodData.chart[1].ts = allPodData.chart[2].ts
    /\ allPodData.chart[1].actual_consumption = 2
    /\ allPodData.chart[2].actual_consumption = 1
    /\ allPodData.chart[1].actual_supply = None
    /\ allPodData.chart[2].actual_supply = None
    /\ toImport.hourly_data[SENSOR_TYPE_ACTUAL_CONSUMPTION]
           = (ExpectedHour(allPodData.chart[1].ts) :> 75)
    /\ toImport.hourly_data[SENSOR_TYPE_ACTUAL_SUPPLY] = << >>

(* C25: with no last statistics and the readings 10:15Z with consumption   *)
(* 0.1320 and 10:30Z with no consumption, the consumption series gets      *)
(* exactly one point, at 10:00Z with sum 0.033 (3300 hundredths of a       *)
(* thousandth).                                                            *)
C25_EndToEnd ==
    (Aggregated /\ allPodData.chart = TestChart) =>
        toImport.stats = <<[start |-> 10, sum |-> 3300]>>

C25_Witness ==
    /\ Aggregated
    /\ allPodData.chart = TestChart
    /\ Len(toImport.stats) = 1
    /\ toImport.hourly_data[SENSOR_TYPE_ACTUAL_SUPPLY] = (10 :> 12500)

(* C26: two pods with different friendly names never get the same          *)
(* statistic id for a sensor type.                                         *)
C26_SeriesIdUnique ==
    (/\ pc = "output"
     /\ allPodData.fn = "statistic_id"
     /\ allPodData.names["A"] # allPodData.names["B"]) =>
        toImport["A"] # toImport["B"]

(* The stable ids of the labels a discovery returned. *)
ReturnedIds(labels) ==
    {LeadingRun(labels[i]) : i \in {j \in 1..Len(labels) : labels[j][1] \in UpperAlnum}}

(* C27: a successful discovery replaces the registry wholesale, and        *)
(* nothing else changes it: the registry is exactly the points the         *)
(* discovery of this cycle returned if it succeeded, and otherwise the     *)
(* registry the cycle started with.                                        *)
C27_RegistryReplacedWholesale ==
    pods = IF atStart.discovery = "ok" /\ atStart.labels # << >>
           THEN ReturnedIds(atStart.labels)
           ELSE atStart.registry

C27_Witness ==
    /\ atStart.registry = {"A", "B"}
    /\ atStart.discovery = "ok"
    /\ atStart.labels = <<LabelB, LabelNoId>>
    /\ pods = {"B"}
    /\ outcome = "done"

(* C28: within one cycle a delay is executed before every request of       *)
(* interval readings but the first.                                        *)
C28_DelayBetweenRequests ==
    \A i \in 2..Len(requests) : requests[i].delayed

(* C29: each daily request covers one local calendar day, from its local  *)
(* midnight to the instant of the next local midnight, given in UTC; the   *)
(* windows of consecutive days are contiguous; both helpers return the     *)
(* same pair.                                                              *)
C29_WindowIsOneLocalDay ==
    (pc = "output" /\ allPodData.fn = "range") =>
        LET now == allPodData.now
            today_day == now.hour \div HoursPerDay
            OneLocalDay(w) ==
                /\ w[1].offset = TzOffset
                /\ w[1].hour % HoursPerDay = 0
                /\ w[2].offset = 0
                /\ (w[2].hour + TzOffset) % HoursPerDay = 0
                /\ Instant(w[2]) - Instant(w[1]) = HoursPerDay
        IN  /\ OneLocalDay(toImport.window)
            /\ OneLocalDay(toImport.const)
            /\ Instant(toImport.following[1]) = Instant(toImport.window[2])
            /\ toImport.helpers = toImport.const
            /\ Instant(toImport.const[2]) <= Instant(now)
            /\ Instant(now) < Instant(toImport.const[2]) + HoursPerDay
            /\ YesterdayRange(today_day)
                   = <<Instant(toImport.const[1]), Instant(toImport.const[2])>>
            /\ Instant(toImport.window[1])
                   = LocalMidnight(HistoryDay(today_day, allPodData.day_offset))

C29_Witness ==
    /\ pc = "output"
    /\ allPodData.fn = "range"
    /\ allPodData.day_offset = 2
    /\ allPodData.now.hour % HoursPerDay # 0
    /\ Instant(toImport.window[2]) = Instant(toImport.following[1])
    /\ Instant(toImport.window[2]) - Instant(toImport.window[1]) = HoursPerDay

(* The steps of the update cycle: each is a call that returned or raised. *)
CycleStep ==
    \/ \E result \in Results, labels \in DiscoverResults :
           Discover(result, labels)
    \/ FirstRunCheck
    \/ \E result \in Results : HistFetch(result)
    \/ SmartPolling
    \/ \E result \in Results : Fetch(result)
    \/ \E result \in ReadResults : Anchor(result)
    \/ \E result \in ReadResults : Totals(result)
    \/ Finish

(* The requests of interval readings the cycle made for a pod in a phase. *)
RequestsOf(p, phase) ==
    Cardinality({i \in 1..Len(requests) :
                    requests[i].pod = p /\ requests[i].phase = phase})

(* The reads of the store that _fetch_cumulative_totals_from_statistics    *)
(* and _import_current_statistics have left, plus the steps after them.    *)
ReadsLeft == (Len(podIds) - idx) * Cardinality(SensorTypes)
             + (Len(EnabledSensorTypes(config)) - kindIdx) + 1

TotalsTop == 2 + Cardinality(AllPods) * Cardinality(SensorTypes)

AnchorTop == TotalsTop + Cardinality(AllPods) * Cardinality(SensorTypes) + 1

FetchTop == AnchorTop + Cardinality(AllPods) + 1

HistTop == FetchTop + 2 + Cardinality(AllPods) * MaxHistoryDays

(* A bound on the steps the cycle has left: 0 when no cycle runs. *)
StepsLeft ==
    CASE pc = "idle" -> 0
      [] pc = "finish" -> 1
      [] pc = "totals" -> 1 + ReadsLeft
      [] pc = "anchor" -> TotalsTop + ReadsLeft
      [] pc = "fetch" -> AnchorTop + (Len(podIds) - idx) + 1
      [] pc = "poll" -> FetchTop + 1
      [] pc = "hist_fetch" -> FetchTop + 1 + (Len(podIds) - idx) * config.history_days
                              + dayOffset
      [] pc = "first_run" -> HistTop + 1
      [] pc = "discover" -> HistTop + 2

Ended ==
    /\ pc = "idle"
    /\ outcome \in {"done", "up_to_date", "auth_failed", "update_failed",
                    "cancelled"}

(* C30: every cycle terminates, returning a snapshot or raising: each call *)
(* that returns or raises brings the cycle closer to its end by a bound    *)
(* that is never negative, a cycle that has no step left has ended, and    *)
(* the cycle makes at most history_days requests per pod in the history    *)
(* import and one request per pod in the current fetch.                    *)
C30_CycleTerminates ==
    [][/\ CycleStep => (StepsLeft' < StepsLeft /\ StepsLeft' >= 0)
       /\ (StepsLeft' = 0 /\ cycles' > 0) => Ended'
       /\ \A p \in AllPods :
              /\ RequestsOf(p, "history")' <= config'.history_days
              /\ RequestsOf(p, "current")' <= 1]_vars

C30_Witness ==
    /\ Ended
    /\ outcome = "done"
    /\ config.history_days = MaxHistoryDays
    /\ \A p \in AllPods :
           /\ RequestsOf(p, "history") = MaxHistoryDays
           /\ RequestsOf(p, "current") = 1

(* C31: in a cycle that runs the history import, the current import emits  *)
(* no point for an hour the history import submitted in that cycle.        *)
C31_NoPointAfterHistory ==
    \A i, j \in 1..Len(submitted) :
        (/\ submitted[i].path = "history"
         /\ submitted[j].path = "current"
         /\ submitted[i].id = submitted[j].id) =>
            \A k \in 1..Len(submitted[i].stats), l \in 1..Len(submitted[j].stats) :
                submitted[i].stats[k].start # submitted[j].stats[l].start

(* C32: the history import runs at most once: a cycle that made a request  *)
(* (it got past the registry resolution) leaves history_import_done set,   *)
(* and a cycle that starts with it set makes no history request.           *)
C32_HistoryImportOnce ==
    /\ (pc = "idle" /\ requests # << >>) => historyDone
    /\ atStart.historyDone =>
           \A i \in 1..Len(requests) : requests[i].phase # "history"

(* C33: a cycle that completes after a cycle in which the request of       *)
(* yesterday's readings of a pod failed requests yesterday for that pod.   *)
C33_FailedDayRequestedAgain ==
    (/\ Done
     /\ cycles >= 2
     /\ atStart.data # << >>) =>
        \A p \in DOMAIN atStart.data :
            (atStart.data[p].chart = << >> /\ \E i \in 1..Len(podIds) : podIds[i] = p) =>
                \E i \in 1..Len(requests) :
                    /\ requests[i].pod = p
                    /\ requests[i].phase = "current"
                    /\ requests[i].day = atStart.now - 1

(* C34: every pod of the snapshot of a completed cycle carries yesterday's *)
(* aggregated total of each enabled sensor type.                           *)
C34_SnapshotHasTotals ==
    (Done /\ data # << >>) =>
        \A p \in DOMAIN data :
            \A i \in 1..Len(EnabledSensorTypes(config)) :
                EnabledSensorTypes(config)[i] \in DOMAIN data[p].aggregated_data

(* C35: an hour whose readings of a sensor type are all absent gets no     *)
(* point: every point submitted for a series, by the history import or by  *)
(* the current import, lies on an hour of which the meter holds a value of *)
(* that sensor type for at least one quarter.                              *)
C35_AbsentHourNoPoint ==
    \A i \in 1..Len(submitted) :
        \A k \in 1..Len(submitted[i].stats) :
            \E q \in (4 * submitted[i].stats[k].start + 1)
                        ..(4 * submitted[i].stats[k].start + 4) :
                ValueAt(submitted[i].id[1], submitted[i].id[2], q) # None

(* The supply series of pod B gets the points of a day of which one hour   *)
(* has a supply value and another has none.                                *)
C35_Witness ==
    \E i \in 1..Len(submitted) :
        /\ submitted[i].id = StatisticId("B", SENSOR_TYPE_ACTUAL_SUPPLY)
        /\ submitted[i].stats # << >>
        /\ \E r \in 1..Len(requests) :
               /\ requests[r].pod = "B"
               /\ \E h \in LocalMidnight(requests[r].day)
                              ..(LocalMidnight(requests[r].day + 1) - 1) :
                      /\ \A q \in (4 * h + 1)..(4 * h + 4) : SupplyAt("B", q) = None
                      /\ \A k \in 1..Len(submitted[i].stats) :
                             submitted[i].stats[k].start # h
                      /\ \E k \in 1..Len(submitted[i].stats) :
                             DayOfHour(submitted[i].stats[k].start) = requests[r].day

(* C36: a discovery call that fails (an authentication error, a transport *)
(* error, or no point returned) leaves the registry with exactly the       *)
(* contents it had before the call.                                        *)
C36_FailedDiscoveryKeepsRegistry ==
    atStart.discovery \in {"auth", "error", "empty"} => pods = atStart.registry

(* A cycle that starts with a registry of two points, calls discovery and  *)
(* ends with the failure of the call, the two points still registered.     *)
C36_Witness ==
    /\ atStart.discovery \in {"auth", "error", "empty"}
    /\ atStart.registry = {"A", "B"}
    /\ pods = {"A", "B"}
    /\ pc = "idle"
    /\ outcome \in {"auth_failed", "update_failed"}

(* C37: after any sequence of update_config calls update_interval is the   *)
(* scan_interval the configuration holds (the default when it holds none); *)
(* a call whose new_config has no scan_interval leaves update_interval as  *)
(* it was; a call requests a refresh exactly when the supply sensor        *)
(* setting of the configuration after the call differs from the one        *)
(* before it.                                                              *)
C37_UpdateIntervalFollowsConfig ==
    /\ toImport.update_interval
           = DictGet(config, "scan_interval", DEFAULT_SCAN_INTERVAL)
    /\ allPodData.fn = "update_config" =>
           /\ allPodData.new_config.scan_interval = << >> =>
                  toImport.update_interval = allPodData.update_interval
           /\ toImport.refresh_requested
                  <=> (allPodData.old_config.enable_supply_sensors
                           # config.enable_supply_sensors)

(* The identifier matches a discovered point: its text is the label of the *)
(* point, or the label starts with the leading id of the identifier.       *)
MatchingPoints(identifier, labels) ==
    SelectSeq(PointsWithId(labels),
              LAMBDA text : \/ text = identifier
                            \/ /\ LeadingChars(identifier) # << >>
                               /\ StartsWith(text, LeadingChars(identifier)))

(* The stable ids of the points the identifiers match, in their order. *)
RECURSIVE MatchedIds(_, _)
MatchedIds(identifiers, labels) ==
    IF identifiers = << >> THEN << >>
    ELSE (IF MatchingPoints(Head(identifiers), labels) # << >>
          THEN <<LeadingChars(MatchingPoints(Head(identifiers), labels)[1])>>
          ELSE << >>)
         \o MatchedIds(Tail(identifiers), labels)

RECURSIVE IsSubSeq(_, _)
IsSubSeq(s, t) ==
    IF s = << >> THEN TRUE
    ELSE IF t = << >> THEN FALSE
    ELSE IF Head(s) = Head(t) THEN IsSubSeq(Tail(s), Tail(t))
    ELSE IsSubSeq(s, Tail(t))

(* C38: after async_migrate_entry returned True for a version 1 entry with *)
(* the API reachable, the stable ids of the points the configured          *)
(* identifiers match are in point_of_delivery, in the order of the         *)
(* identifiers: no matching point is dropped and the list is not empty     *)
(* when a match exists.                                                    *)
C38_MigrationKeepsMatches ==
    (/\ pc = "output"
     /\ allPodData.fn = "migrate"
     /\ allPodData.api = "ok"
     /\ toImport.ok) =>
        IsSubSeq(MatchedIds(allPodData.point_of_delivery, allPodData.labels),
                 toImport.point_of_delivery)

====
